---- MODULE Spec2Model ----
(***************************************************************************)
(* Model of redisco/containers.py: the TypedList proxy over a Redis list,  *)
(* the raw List container it wraps, and the Container execution-context    *)
(* lookup (the db property).  Redis executes each command atomically, so   *)
(* a step of the model is one call of the API up to its next command       *)
(* boundary; other clients of the same key act between the steps.          *)
(***************************************************************************)
EXTENDS Integers, Sequences, FiniteSets, TLC

VARIABLES store,       \* the Redis list stored at the key: a sequence of raw strings
          objects,     \* identifiers the model registry resolves (klass.objects)
          proxy,       \* the TypedList instance, NoProxy before construction
          it,          \* the generator returned by TypedList.__iter__
          ext,         \* the TypedList.extend call in progress
          last,        \* the latest call of the client and its outcome
          cont,        \* a raw Container instance (a List on the same key)
          connection,  \* what "from redisco import connection" yields
          pipe,        \* commands queued on the pipeline, not yet executed
          issued,      \* the latest command the raw container handed to a context
          sets,        \* the Redis sets stored at the keys of the Set containers
          zset,        \* the Redis sorted set of the SortedSet: member to score
          reply        \* the latest call on a Set or SortedSet and its outcome

vars == <<store, objects, proxy, it, ext, last, cont, connection, pipe, issued,
          sets, zset, reply>>

ctxvars == <<cont, connection, pipe, issued>>

listvars == <<store, objects, proxy, it, ext, last>>

setvars == <<sets, zset, reply>>

\* ---------------------------------------------------------------- bounds
MaxLen == 3      \* longest list held at the key
MaxExt == 2      \* longest iterable handed to extend
MaxPipe == 2     \* most commands queued on the pipeline
MaxScore == 3    \* highest score given to a member of the sorted set
MaxOthers == 2   \* most sets handed to one call of a Set operation

\* ---------------------------------------------------------------- values
\* Python values are tagged records, so that values of different types
\* compare unequal instead of being confused.
None == [ty |-> "NoneType"]
PyInt(n) == [ty |-> "int", n |-> n]
PyStr(s) == [ty |-> "str", s |-> s]
PyList(s) == [ty |-> "list", items |-> s]
Entity(id) == [ty |-> "Model", id |-> id]
Raise(e) == [ty |-> "exception", e |-> e]

IsExc(v) == v.ty = "exception"

Digits == <<"0", "1", "2", "3", "4", "5", "6", "7", "8", "9">>

\* str(n) of a small non-negative integer
ToStr(n) == Digits[n + 1]

\* whether int(s) accepts the string
IsNumeric(s) == \E k \in 1..Len(Digits) : Digits[k] = s

\* int(s) of a one-digit string
ParseInt(s) == (CHOOSE k \in 1..Len(Digits) : Digits[k] = s) - 1

\* the command argument as the client library sends it: the text of the value
Encode(v) == IF v.ty = "int" THEN ToStr(v.n)
             ELSE IF v.ty = "str" THEN v.s
             ELSE "None"

Nums == {1, 2}
Ids == {"1", "2"}
Raws == {"1", "2"}
PlainVals == {PyInt(n) : n \in Nums}
EntityVals == {Entity(id) : id \in Ids}

\* ---------------------------------------------------------------- Redis list commands
\* an index as Redis reads it: negative indexes count from the tail
NormIndex(s, i) == IF i < 0 THEN Len(s) + i ELSE i

InRange(s, i) == NormIndex(s, i) >= 0 /\ NormIndex(s, i) < Len(s)

\* LLEN
llen(s) == Len(s)

\* LINDEX reading the index as counted from one
lindex_from_one(s, i) ==
    IF InRange(s, i + 1) THEN PyStr(s[NormIndex(s, i + 1) + 1]) ELSE None

\* LINDEX: nil outside the list
lindex(s, i) == IF InRange(s, i) THEN PyStr(s[NormIndex(s, i) + 1]) ELSE None

\* LRANGE start stop, both inclusive
lrange(s, start, stop) ==
    LET a0 == NormIndex(s, start)
        b0 == NormIndex(s, stop)
        a == IF a0 < 0 THEN 0 ELSE a0
        b == IF b0 >= Len(s) THEN Len(s) - 1 ELSE b0
    IN IF a > b \/ a >= Len(s) THEN <<>>
       ELSE [k \in 1..(b - a + 1) |-> PyStr(s[a + k])]

\* LSET that accepts any index
lset_reply_lenient(s, i) == None

\* LSET: the reply, an error outside the list (or when the key holds no list)
lset_reply(s, i) == IF InRange(s, i) THEN None ELSE Raise("ResponseError")

\* LSET: the list after the command
lset(s, i, raw) == IF InRange(s, i) THEN [s EXCEPT ![NormIndex(s, i) + 1] = raw] ELSE s

\* a push at the head (LPUSH) in place of the tail
rpush_head(s, raw) == <<raw>> \o s

\* RPUSH
rpush(s, raw) == Append(s, raw)

\* RPOP
rpop(s) == SubSeq(s, 1, Len(s) - 1)

\* ---------------------------------------------------------------- model registry
TInt == [ty |-> "type", name |-> "int", model |-> FALSE]
TStr == [ty |-> "type", name |-> "str", model |-> FALSE]
TUser == [ty |-> "type", name |-> "User", model |-> TRUE]

\* the target_type arguments a caller constructs a TypedList with
TargetTypes == {TInt, TStr, TUser, PyStr("User"), PyStr("Ghost")}

\* models.base.get_model_from_key: the model class of that name, or None
get_model_from_key(n) == IF n = "User" THEN TUser ELSE None

\* klass.objects.get_by_id: the entity with that identifier, or None
get_by_id(v) == IF v.ty = "str" /\ v.s \in objects THEN Entity(v.s) ELSE None

\* klass(value) for the plain types
CallType(klass, v) ==
    IF klass.name = "int"
    THEN IF v.ty = "int" THEN v
         ELSE IF v.ty = "str"
              THEN IF IsNumeric(v.s) THEN PyInt(ParseInt(v.s)) ELSE Raise("ValueError")
              ELSE Raise("TypeError")
    ELSE PyStr(Encode(v))

\* ---------------------------------------------------------------- TypedList helpers
NoProxy == [made |-> FALSE]

\* value_type without the check of the lookup's result
value_type_unchecked(target_type) ==
    IF target_type.ty = "str" THEN get_model_from_key(target_type.s) ELSE target_type

\* TypedList.value_type: the class, or the error for an unknown model name
value_type(target_type) ==
    IF target_type.ty = "str"
    THEN IF get_model_from_key(target_type.s) = None
         THEN Raise("ValueError")
         ELSE get_model_from_key(target_type.s)
    ELSE target_type

\* issubclass(klass, Model): a TypeError when klass is not a class
issubclass_Model(klass) ==
    IF klass.ty = "type" THEN [ty |-> "bool", b |-> klass.model] ELSE Raise("TypeError")

\* typecast_item raising for an identifier that does not resolve
typecast_item_strict(p, value) ==
    IF p.redisco_model
    THEN (IF get_by_id(value) = None THEN Raise("DoesNotExist") ELSE get_by_id(value))
    ELSE CallType(p.klass, value)

\* TypedList.typecast_item
typecast_item(p, value) ==
    IF p.redisco_model THEN get_by_id(value) ELSE CallType(p.klass, value)

\* typecast_iter keeping the identifiers that do not resolve
typecast_iter_unfiltered(p, values) ==
    IF p.redisco_model
    THEN PyList([k \in 1..Len(values) |-> get_by_id(values[k])])
    ELSE PyList([k \in 1..Len(values) |-> CallType(p.klass, values[k])])

\* TypedList.typecast_iter: the list, or the exception of the first cast that raises
typecast_iter(p, values) ==
    IF p.redisco_model
    THEN PyList(SelectSeq([k \in 1..Len(values) |-> get_by_id(values[k])],
                          LAMBDA o : o # None))
    ELSE LET cast == [k \in 1..Len(values) |-> CallType(p.klass, values[k])]
             bad == {k \in 1..Len(values) : IsExc(cast[k])}
         IN IF bad = {} THEN PyList(cast)
            ELSE cast[CHOOSE k \in bad : \A j \in bad : k <= j]

\* TypedList.typecast_stor
typecast_stor(p, value) == IF p.redisco_model THEN PyStr(value.id) ELSE value

\* the values a caller hands to a proxy of that element type
InputVals(p) == IF p.redisco_model THEN EntityVals ELSE PlainVals

Indexes == (0 - MaxLen - 1)..MaxLen

\* the record of a call: seq alternates so that two equal calls in a row differ
Rec(op, idx, arg, ret, cmds) ==
    [op |-> op, idx |-> idx, arg |-> arg, ret |-> ret, cmds |-> cmds,
     seq |-> 1 - last.seq]

IdleIt == [st |-> "idle", n |-> 0, i |-> 0, out |-> <<>>, changed |-> FALSE]
IdleExt == [st |-> "idle", orig |-> <<>>, rem |-> <<>>, mixed |-> FALSE]

\* the client is between calls: no extend or slice read is running and no
\* generator is live
Idle == proxy.made /\ ext.st # "active" /\ it.st # "active" /\ last.ret.ty # "pending"

\* ---------------------------------------------------------------- TypedList operations
\* TypedList.__init__
TypedList_init(target_type) ==
    /\ ~proxy.made
    /\ LET klass == value_type(target_type)
           isModel == issubclass_Model(klass)
       IN IF IsExc(klass) \/ IsExc(isModel)
          THEN /\ proxy' = proxy
               /\ last' = Rec("init", 0, target_type,
                              IF IsExc(klass) THEN klass ELSE isModel, 0)
          ELSE /\ proxy' = [made |-> TRUE, klass |-> klass,
                            redisco_model |-> isModel.b]
               /\ last' = Rec("init", 0, target_type, None, 0)
    /\ UNCHANGED <<store, objects, it, ext, ctxvars, setvars>>

\* TypedList.all
TypedList_all ==
    /\ Idle
    /\ last' = Rec("all", 0, None, typecast_iter(proxy, lrange(store, 0, 0 - 1)), 1)
    /\ it' = IdleIt /\ ext' = IdleExt
    /\ UNCHANGED <<store, objects, proxy, ctxvars, setvars>>

\* the length of all() in place of the length of the raw list
TypedList_len_of_all(s) == Len(typecast_iter(proxy, lrange(s, 0, 0 - 1)).items)

\* TypedList.__len__ and List.__len__: the value returned
TypedList_len_of(s) == llen(s)

\* TypedList.__len__
TypedList_len ==
    /\ Idle
    /\ last' = Rec("len", 0, None, PyInt(TypedList_len_of(store)), 1)
    /\ it' = IdleIt /\ ext' = IdleExt
    /\ UNCHANGED <<store, objects, proxy, ctxvars, setvars>>

\* TypedList.__getitem__ with an integer index
TypedList_getitem(index) ==
    /\ Idle
    /\ last' = Rec("getitem", index, None, typecast_item(proxy, lindex(store, index)), 1)
    /\ it' = IdleIt /\ ext' = IdleExt
    /\ UNCHANGED <<store, objects, proxy, ctxvars, setvars>>

\* a slice object with step 1, and the bounds a caller writes in it
PySlice(start, stop) == [ty |-> "slice", start |-> start, stop |-> stop]
SliceArgs == {None} \cup {PyInt(k) : k \in (0 - 1)..MaxLen}

\* one bound of slice.indices(n) for a positive step
SliceBound(v, n, default) ==
    IF v = None THEN default
    ELSE IF v.n < 0 THEN (IF v.n + n < 0 THEN 0 ELSE v.n + n)
    ELSE IF v.n > n THEN n ELSE v.n

\* slice.indices(n): the start and the stop
SliceIndices(sl, n) == <<SliceBound(sl.start, n, 0), SliceBound(sl.stop, n, n)>>

\* List.__getitem__ with a slice: lrange(indices[0], indices[1])
List_getslice(s, sl, n) == lrange(s, SliceIndices(sl, n)[1], SliceIndices(sl, n)[2])

\* TypedList.__getitem__ with a slice, up to the LLEN of index.indices(len(self))
TypedList_getslice(start, stop) ==
    /\ Idle
    /\ last' = Rec("getslice", 0, PySlice(start, stop),
                   [ty |-> "pending", n |-> llen(store)], 1)
    /\ it' = IdleIt /\ ext' = IdleExt
    /\ UNCHANGED <<store, objects, proxy, ctxvars, setvars>>

\* the LRANGE of the running slice read, and the cast of its result
TypedList_getslice_range ==
    /\ proxy.made
    /\ last.ret.ty = "pending"
    /\ last' = [last EXCEPT
                  !.ret = typecast_iter(proxy, List_getslice(store, last.arg, last.ret.n)),
                  !.cmds = 2]
    /\ UNCHANGED <<store, objects, proxy, it, ext, ctxvars, setvars>>

\* TypedList.__setitem__
TypedList_setitem(index, value) ==
    /\ Idle
    /\ value \in InputVals(proxy)
    /\ store' = lset(store, index, Encode(typecast_stor(proxy, value)))
    /\ last' = Rec("setitem", index, value, lset_reply(store, index), 1)
    /\ it' = IdleIt /\ ext' = IdleExt
    /\ UNCHANGED <<objects, proxy, ctxvars, setvars>>

\* TypedList.append
TypedList_append(value) ==
    /\ Idle
    /\ value \in InputVals(proxy)
    /\ Len(store) < MaxLen
    /\ store' = rpush(store, Encode(typecast_stor(proxy, value)))
    /\ last' = Rec("append", 0, value, None, 1)
    /\ it' = IdleIt /\ ext' = IdleExt
    /\ UNCHANGED <<objects, proxy, ctxvars, setvars>>

\* List.extend pushing the elements last to first
List_extend_reversed(raws) == [k \in 1..Len(raws) |-> raws[Len(raws) - k + 1]]

\* List.extend: one RPUSH for each element, in the order of the iterable
List_extend(raws) == raws

\* TypedList.extend, up to the first command of List.extend
TypedList_extend(xs) ==
    /\ Idle
    /\ \A k \in 1..Len(xs) : xs[k] \in InputVals(proxy)
    /\ ext' = [st |-> IF xs = <<>> THEN "done" ELSE "active",
               orig |-> xs,
               rem |-> List_extend([k \in 1..Len(xs) |->
                                       Encode(typecast_stor(proxy, xs[k]))]),
               mixed |-> FALSE]
    /\ last' = Rec("extend", 0, PyList(xs), None, 0)
    /\ it' = IdleIt
    /\ UNCHANGED <<store, objects, proxy, ctxvars, setvars>>

\* the next RPUSH of the running List.extend
TypedList_extend_push ==
    /\ ext.st = "active"
    /\ Len(store) < MaxLen
    /\ store' = rpush(store, Head(ext.rem))
    /\ ext' = [ext EXCEPT !.rem = Tail(ext.rem),
                          !.st = IF Tail(ext.rem) = <<>> THEN "done" ELSE "active"]
    /\ last' = [last EXCEPT !.cmds = last.cmds + 1]
    /\ UNCHANGED <<objects, proxy, it, ctxvars, setvars>>

\* TypedList.__iter__, the first next(): xrange(len(self.list))
TypedList_iter ==
    /\ Idle
    /\ it' = [st |-> "active", n |-> llen(store), i |-> 0, out |-> <<>>,
              changed |-> FALSE]
    /\ last' = Rec("iter", 0, None, None, 1)
    /\ ext' = IdleExt
    /\ UNCHANGED <<store, objects, proxy, ctxvars, setvars>>

\* the length read again at every step
iter_bound_live(g, s) == llen(s)

\* the end of the generator's xrange: the length read at its first step
iter_bound(g, s) == g.n

\* the generator's next step: yield self[i], or StopIteration after the last index
TypedList_iter_next ==
    /\ it.st = "active"
    /\ IF it.i < iter_bound(it, store)
       THEN LET v == typecast_item(proxy, lindex(store, it.i))
            IN IF IsExc(v)
               THEN it' = [it EXCEPT !.st = "raised"]
               ELSE it' = [it EXCEPT !.i = it.i + 1, !.out = Append(it.out, v)]
       ELSE it' = [it EXCEPT !.st = "done"]
    /\ UNCHANGED <<store, objects, proxy, ext, last, ctxvars, setvars>>

\* ---------------------------------------------------------------- other clients of the key
\* what a write of another client does to the calls in progress
Disturbed(e) == IF e.st = "active" THEN [e EXCEPT !.mixed = TRUE] ELSE e
Changed(g) == IF g.st # "idle" THEN [g EXCEPT !.changed = TRUE] ELSE g

\* List.append by another client
Other_append(raw) ==
    /\ Len(store) < MaxLen
    /\ store' = rpush(store, raw)
    /\ ext' = Disturbed(ext) /\ it' = Changed(it)
    /\ UNCHANGED <<objects, proxy, last, ctxvars, setvars>>

\* List.pop by another client
Other_pop ==
    /\ store # <<>>
    /\ store' = rpop(store)
    /\ ext' = Disturbed(ext) /\ it' = Changed(it)
    /\ UNCHANGED <<objects, proxy, last, ctxvars, setvars>>

\* ---------------------------------------------------------------- Container and its db property
ExplicitConn == [ty |-> "connection", name |-> "explicit"]
DefaultConn == [ty |-> "connection", name |-> "default"]
Pipeline == [ty |-> "pipeline", name |-> "pipeline"]

NoContainer == [made |-> FALSE]

\* db preferring the explicit connection to the pipeline
db_connection_first(c) ==
    IF c.db # None
    THEN [ctx |-> c.db, db_cache |-> c.db_cache, imported |-> FALSE]
    ELSE IF c.pipeline # None
    THEN [ctx |-> c.pipeline, db_cache |-> c.db_cache, imported |-> FALSE]
    ELSE IF c.db_cache # None
    THEN [ctx |-> c.db_cache, db_cache |-> c.db_cache, imported |-> FALSE]
    ELSE IF IsExc(connection)
    THEN [ctx |-> connection, db_cache |-> c.db_cache, imported |-> FALSE]
    ELSE [ctx |-> connection, db_cache |-> connection, imported |-> TRUE]

\* Container.db: the context used, the db_cache attribute afterwards, and
\* whether the default connection was imported by this use
db(c) ==
    IF c.pipeline # None
    THEN [ctx |-> c.pipeline, db_cache |-> c.db_cache, imported |-> FALSE]
    ELSE IF c.db # None
    THEN [ctx |-> c.db, db_cache |-> c.db_cache, imported |-> FALSE]
    ELSE IF c.db_cache # None
    THEN [ctx |-> c.db_cache, db_cache |-> c.db_cache, imported |-> FALSE]
    ELSE IF IsExc(connection)
    THEN [ctx |-> connection, db_cache |-> c.db_cache, imported |-> FALSE]
    ELSE [ctx |-> connection, db_cache |-> connection, imported |-> TRUE]

Min(a, b) == IF a < b THEN a ELSE b

\* Container.__init__ of a raw List on the key
Container_init(conn, pipeline) ==
    /\ cont' = [made |-> TRUE, db |-> conn, pipeline |-> pipeline,
                db_cache |-> None, imports |-> 0]
    /\ issued' = None
    /\ UNCHANGED <<store, pipe, connection, objects, proxy, it, ext, last, setvars>>

\* Container.__getattribute__ of a delegated method, and the uses of self.db:
\* the command goes to the context that db yields; a pipeline queues it
Delegate(cmd, arg, after) ==
    /\ cont.made
    /\ LET r == db(cont)
       IN /\ cont' = [cont EXCEPT !.db_cache = r.db_cache,
                                  !.imports = Min(2, cont.imports +
                                                     (IF r.imported THEN 1 ELSE 0))]
          /\ IF IsExc(r.ctx)
             THEN /\ issued' = r.ctx
                  /\ UNCHANGED <<store, pipe>>
             ELSE /\ issued' = [ty |-> "command", cmd |-> cmd, ctx |-> r.ctx]
                  /\ IF r.ctx.ty = "pipeline"
                     THEN /\ Len(pipe) < MaxPipe
                          /\ pipe' = Append(pipe, <<cmd, arg>>)
                          /\ store' = store
                     ELSE /\ pipe' = pipe
                          /\ store' = after
    /\ UNCHANGED <<connection, objects, proxy, it, ext, last, setvars>>

\* List.append
List_append(raw) ==
    /\ Len(store) < MaxLen
    /\ Delegate("rpush", raw, rpush(store, raw))

\* List.pop
List_pop == Delegate("rpop", "", IF store = <<>> THEN store ELSE rpop(store))

\* Container.clear
Container_clear == Delegate("del", "", <<>>)

\* ---------------------------------------------------------------- SortedSet
Members == {"a", "b"}
Scores == 1..MaxScore
Keys == {"key1", "key2", "key3"}

NoReply == [op |-> "none"]

\* the order of the members among equal scores: the order of their bytes
MemberRank(m) == IF m = "a" THEN 1 ELSE 2

\* "%f" % v: the number with six decimals, counted in millionths
FormatF(v) == v * 1000000

\* the score bounds ZRANGEBYSCORE accepts: a number is inclusive, a number
\* with a leading "(" exclusive
Inclusive(v) == [kind |-> "number", excl |-> FALSE, micro |-> v * 1000000]
Exclusive(text) == [kind |-> "number", excl |-> TRUE, micro |-> text]
PlusInf == [kind |-> "+inf"]
MinusInf == [kind |-> "-inf"]

AboveMin(score, min) ==
    IF min.kind = "-inf" THEN TRUE
    ELSE IF min.kind = "+inf" THEN FALSE
    ELSE IF min.excl THEN score * 1000000 > min.micro
    ELSE score * 1000000 >= min.micro

BelowMax(score, max) ==
    IF max.kind = "+inf" THEN TRUE
    ELSE IF max.kind = "-inf" THEN FALSE
    ELSE IF max.excl THEN score * 1000000 < max.micro
    ELSE score * 1000000 <= max.micro

\* the members of S in the order of the sorted set z: by score, then by member
RECURSIVE Ordered(_, _)
Ordered(z, S) ==
    IF S = {} THEN <<>>
    ELSE LET m == CHOOSE x \in S : \A y \in S :
                      \/ z[x] < z[y]
                      \/ z[x] = z[y] /\ MemberRank(x) <= MemberRank(y)
         IN <<PyStr(m)>> \o Ordered(z, S \ {m})

\* ZADD
zadd(z, member, score) ==
    [m \in DOMAIN z \cup {member} |-> IF m = member THEN score ELSE z[m]]

\* ZREM
zrem(z, member) == [m \in DOMAIN z \ {member} |-> z[m]]

\* ZRANGEBYSCORE min max [LIMIT start num]: start and num come together
zrangebyscore(z, min, max, start, num) ==
    LET hit == Ordered(z, {m \in DOMAIN z : AboveMin(z[m], min) /\ BelowMax(z[m], max)})
    IN IF (start = None) # (num = None) THEN Raise("RedisError")
       ELSE IF start = None THEN PyList(hit)
       ELSE PyList(SubSeq(hit, start.n + 1, Min(Len(hit), start.n + num.n)))

\* the offset the range methods pass on: 0 when only a limit is given
OffsetOf(limit, offset) == IF limit # None /\ offset = None THEN PyInt(0) ELSE offset

\* the limit and offset arguments of the range methods
Limits == {None, PyInt(1)}
Offsets == {None, PyInt(1)}

\* SortedSet.add
SortedSet_add(member, score) ==
    /\ zset' = zadd(zset, member, score)
    /\ reply' = [op |-> "add", member |-> member, score |-> score]
    /\ UNCHANGED <<sets, listvars, ctxvars>>

\* SortedSet.remove
SortedSet_remove(member) ==
    /\ zset' = zrem(zset, member)
    /\ reply' = [op |-> "remove", member |-> member]
    /\ UNCHANGED <<sets, listvars, ctxvars>>

\* SortedSet.gt
SortedSet_gt(v, limit, offset) ==
    /\ reply' = [op |-> "gt", v |-> v, limit |-> limit, offset |-> offset,
                 ret |-> zrangebyscore(zset, Exclusive(FormatF(v)), PlusInf,
                                       OffsetOf(limit, offset), limit)]
    /\ UNCHANGED <<sets, zset, listvars, ctxvars>>

\* SortedSet.ge
SortedSet_ge(v, limit, offset) ==
    /\ reply' = [op |-> "ge", v |-> v, limit |-> limit, offset |-> offset,
                 ret |-> zrangebyscore(zset, Exclusive(FormatF(v)), PlusInf,
                                       OffsetOf(limit, offset), limit)]
    /\ UNCHANGED <<sets, zset, listvars, ctxvars>>

\* SortedSet.between
SortedSet_between(min, max, limit, offset) ==
    /\ reply' = [op |-> "between", min |-> min, max |-> max,
                 limit |-> limit, offset |-> offset,
                 ret |-> zrangebyscore(zset, Inclusive(min), Inclusive(max),
                                       OffsetOf(limit, offset), limit)]
    /\ UNCHANGED <<sets, zset, listvars, ctxvars>>

\* ---------------------------------------------------------------- Set
Seqs(S, n) == UNION {[1..k -> S] : k \in 0..n}

\* a Set container on that key, and the tuple a *args parameter receives
SetObj(k) == [ty |-> "Set", key |-> k]
PyTuple(s) == [ty |-> "tuple", items |-> s]

\* the Set arguments handed to one call
OtherSets == Seqs({SetObj(k) : k \in Keys}, MaxOthers)

\* list + other: a list only concatenates with a list
ListPlus(l, other) ==
    IF other.ty = "list" THEN PyList(l.items \o other.items) ELSE Raise("TypeError")

\* o.key: an attribute of the containers, not of a string
KeyOf(o) == IF o.ty = "Set" THEN PyStr(o.key) ELSE Raise("AttributeError")

\* [o.key for o in objs]: the list, or the exception of the first element that raises
KeysOf(objs) ==
    LET ks == [i \in 1..Len(objs) |-> KeyOf(objs[i])]
        bad == {i \in 1..Len(objs) : IsExc(ks[i])}
    IN IF bad = {} THEN PyList(ks)
       ELSE ks[CHOOSE i \in bad : \A j \in bad : i <= j]

\* SADD
sadd(st, k, v) == [st EXCEPT ![k] = st[k] \cup {v}]

\* SREM
srem(st, k, v) == [st EXCEPT ![k] = st[k] \ {v}]

\* SINTERSTORE dest keys
sinterstore(st, dest, keys) ==
    [st EXCEPT ![dest] = {v \in Members : \A i \in 1..Len(keys) : v \in st[keys[i].s]}]

\* SUNIONSTORE dest keys
sunionstore(st, dest, keys) ==
    [st EXCEPT ![dest] = {v \in Members : \E i \in 1..Len(keys) : v \in st[keys[i].s]}]

\* Set.add
Set_add(k, v) ==
    /\ sets' = sadd(sets, k, v)
    /\ reply' = [op |-> "add", self |-> k, value |-> v, ret |-> None]
    /\ UNCHANGED <<zset, listvars, ctxvars>>

\* Set.discard
Set_discard(k, v) ==
    /\ sets' = srem(sets, k, v)
    /\ reply' = [op |-> "discard", self |-> k, value |-> v, ret |-> None]
    /\ UNCHANGED <<zset, listvars, ctxvars>>

\* Set.update
Set_update(k, other_sets) ==
    /\ LET keys == ListPlus(PyList(<<PyStr(k)>>), KeysOf(other_sets))
       IN /\ sets' = sunionstore(sets, k, keys.items)
          /\ reply' = [op |-> "update", self |-> k, others |-> other_sets, ret |-> None]
    /\ UNCHANGED <<zset, listvars, ctxvars>>

\* Set.__iand__
Set_iand(k, other_set) ==
    /\ sets' = sinterstore(sets, k, <<PyStr(k), KeyOf(other_set)>>)
    /\ reply' = [op |-> "iand", self |-> k, others |-> <<other_set>>, ret |-> SetObj(k)]
    /\ UNCHANGED <<zset, listvars, ctxvars>>

\* Set.intersection_update: other_sets is the tuple of the *other_sets parameter
Set_intersection_update(k, other_sets) ==
    /\ LET objs == ListPlus(PyList(<<PyStr(k)>>), PyTuple(other_sets))
           keys == IF IsExc(objs) THEN objs ELSE KeysOf(objs.items)
       IN IF IsExc(keys)
          THEN /\ sets' = sets
               /\ reply' = [op |-> "intersection_update", self |-> k,
                            others |-> other_sets, ret |-> keys]
          ELSE /\ sets' = sinterstore(sets, k, keys.items)
               /\ reply' = [op |-> "intersection_update", self |-> k,
                            others |-> other_sets, ret |-> None]
    /\ UNCHANGED <<zset, listvars, ctxvars>>

\* ---------------------------------------------------------------- specification

Init ==
    /\ store = <<>>
    /\ objects \in SUBSET Ids
    /\ proxy = NoProxy
    /\ it = IdleIt
    /\ ext = IdleExt
    /\ last = [op |-> "none", idx |-> 0, arg |-> None, ret |-> None, cmds |-> 0,
               seq |-> 0]
    /\ cont = NoContainer
    /\ connection = DefaultConn
    /\ pipe = <<>>
    /\ issued = None
    /\ sets = [k \in Keys |-> {}]
    /\ zset = <<>>
    /\ reply = NoReply

Next ==
    \/ \E t \in TargetTypes : TypedList_init(t)
    \/ TypedList_all
    \/ TypedList_len
    \/ \E i \in Indexes : TypedList_getitem(i)
    \/ \E i \in Indexes, v \in PlainVals \cup EntityVals : TypedList_setitem(i, v)
    \/ \E v \in PlainVals \cup EntityVals : TypedList_append(v)
    \/ \E xs \in Seqs(PlainVals \cup EntityVals, MaxExt) : TypedList_extend(xs)
    \/ TypedList_extend_push
    \/ TypedList_iter
    \/ TypedList_iter_next
    \/ \E raw \in Raws : Other_append(raw)
    \/ Other_pop

Spec == Init /\ [][Next]_vars

\* the slice reads of a TypedList, with its writes and the other clients of the key
NextSlice ==
    \/ \E t \in TargetTypes : TypedList_init(t)
    \/ TypedList_all
    \/ \E v \in PlainVals \cup EntityVals : TypedList_append(v)
    \/ \E a \in SliceArgs, b \in SliceArgs : TypedList_getslice(a, b)
    \/ TypedList_getslice_range
    \/ \E raw \in Raws : Other_append(raw)
    \/ Other_pop

SpecSlice == Init /\ [][NextSlice]_vars

\* the raw container alone: the import of the default connection either
\* yields the process-wide connection or fails
InitCtx ==
    /\ store = <<>>
    /\ objects = Ids
    /\ proxy = NoProxy
    /\ it = IdleIt
    /\ ext = IdleExt
    /\ last = [op |-> "none", idx |-> 0, arg |-> None, ret |-> None, cmds |-> 0,
               seq |-> 0]
    /\ cont = NoContainer
    /\ connection \in {DefaultConn, Raise("ImportError")}
    /\ pipe = <<>>
    /\ issued = None
    /\ sets = [k \in Keys |-> {}]
    /\ zset = <<>>
    /\ reply = NoReply

NextCtx ==
    \/ \E c \in {None, ExplicitConn}, p \in {None, Pipeline} : Container_init(c, p)
    \/ \E raw \in Raws : List_append(raw)
    \/ List_pop
    \/ Container_clear

SpecCtx == InitCtx /\ [][NextCtx]_vars

\* a SortedSet alone
NextSortedSet ==
    \/ \E m \in Members, sc \in Scores : SortedSet_add(m, sc)
    \/ \E m \in Members : SortedSet_remove(m)
    \/ \E v \in Scores, l \in Limits, o \in Offsets : SortedSet_gt(v, l, o)
    \/ \E v \in Scores, l \in Limits, o \in Offsets : SortedSet_ge(v, l, o)
    \/ \E a \in Scores, b \in Scores, l \in Limits, o \in Offsets :
          SortedSet_between(a, b, l, o)

SpecSortedSet == Init /\ [][NextSortedSet]_vars

\* the Set containers alone
NextSet ==
    \/ \E k \in Keys, v \in Members : Set_add(k, v)
    \/ \E k \in Keys, v \in Members : Set_discard(k, v)
    \/ \E k \in Keys, os \in OtherSets : Set_update(k, os)
    \/ \E k \in Keys, o \in Keys : Set_iand(k, SetObj(o))
    \/ \E k \in Keys, os \in OtherSets : Set_intersection_update(k, os)

SpecSet == Init /\ [][NextSet]_vars

\* ---------------------------------------------------------------- properties
\* the step is a completed call of the client with that name
Step(op) == last'.seq # last.seq /\ last'.op = op

\* all() on the list s
AllOf(s) == typecast_iter(proxy, lrange(s, 0, 0 - 1))

\* the entities of the identifiers of s that the registry resolves, in order
ResolvedOf(s) ==
    LET ids == SelectSeq(s, LAMBDA r : r \in objects)
    IN [k \in 1..Len(ids) |-> Entity(ids[k])]

\* the value at position k (from 1) of a read of s by a proxy of that type
PlainCast(raw) ==
    IF proxy.klass.name = "int" THEN PyInt(ParseInt(raw)) ELSE PyStr(raw)

\* C1 as stated: an iteration that ran to its end over a list nobody changed
\* has produced exactly the sequence all() returns
C1_IterEqualsAll ==
    (proxy.made /\ it.st = "done" /\ ~it.changed) => PyList(it.out) = AllOf(store)

\* C1 amended: an iteration over an unchanged list of n elements yields n
\* values, the indexed read of each position in order; in plain mode that is
\* the sequence all() returns, in domain-entity mode an unresolved position is
\* yielded as the "not found" value and all() is the yielded sequence without
\* those values
C1_IterYieldsEveryPosition ==
    (proxy.made /\ it.st = "done" /\ ~it.changed) =>
        /\ Len(it.out) = Len(store)
        /\ \A k \in 1..Len(store) :
              it.out[k] = IF proxy.redisco_model
                          THEN (IF store[k] \in objects THEN Entity(store[k]) ELSE None)
                          ELSE PlainCast(store[k])
        /\ proxy.redisco_model =>
              PyList(SelectSeq(it.out, LAMBDA o : o # None)) = AllOf(store)
        /\ ~proxy.redisco_model => PyList(it.out) = AllOf(store)

C1_Witness ==
    /\ proxy.made /\ proxy.redisco_model
    /\ it.st = "done" /\ ~it.changed
    /\ Len(store) = MaxLen
    /\ Cardinality({k \in 1..Len(store) : store[k] \notin objects}) = 1
    /\ Len(it.out) = MaxLen
    /\ Len(AllOf(store).items) = MaxLen - 1

\* C2: in domain-entity mode all() returns the entities of exactly the stored
\* identifiers that resolve, in stored order, raises nothing, and has the
\* length of the list when every identifier resolves
C2_AllDropsUnresolved ==
    [][(Step("all") /\ proxy.redisco_model) =>
          /\ last'.ret = PyList(ResolvedOf(store))
          /\ (\A k \in 1..Len(store) : store[k] \in objects)
                => Len(last'.ret.items) = Len(store)
          /\ store' = store]_vars

C2_Witness ==
    /\ proxy.made /\ proxy.redisco_model
    /\ last.op = "all"
    /\ Len(store) = MaxLen
    /\ store[1] \in objects /\ store[2] \notin objects /\ store[3] \in objects
    /\ last.ret = PyList(<<Entity(store[1]), Entity(store[3])>>)

\* C3: in domain-entity mode proxy[i] at an in-range position whose
\* identifier does not resolve returns the "not found" value, raises nothing
\* and leaves the list unchanged
C3_GetitemUnresolved ==
    [][(Step("getitem") /\ proxy.redisco_model /\ InRange(store, last'.idx)
           /\ store[NormIndex(store, last'.idx) + 1] \notin objects) =>
          /\ last'.ret = None
          /\ store' = store]_vars

C3_Witness ==
    /\ proxy.made /\ proxy.redisco_model
    /\ last.op = "getitem" /\ last.idx = 1
    /\ Len(store) = MaxLen
    /\ store[2] \notin objects /\ store[1] \in objects /\ store[3] \in objects
    /\ last.ret = None

\* C4 as stated: an indexed read or assignment outside the bounds fails with
\* the index error and leaves the list unchanged
C4_OutOfRangeFails ==
    [][((Step("getitem") \/ Step("setitem")) /\ ~InRange(store, last'.idx)) =>
          /\ last'.ret \in {Raise("IndexError"), Raise("ResponseError")}
          /\ store' = store]_vars

\* C4 amended: an indexed assignment outside the bounds fails at once with the
\* store's index error and leaves the list unchanged; an indexed read outside
\* the bounds raises no index error: the store answers nil, the read returns
\* what the element cast makes of nil (the "not found" value in domain-entity
\* mode, str(None) or the TypeError of int(None) in plain mode), and the list
\* is unchanged
C4_OutOfRangeWriteFails ==
    [][/\ (Step("setitem") /\ ~InRange(store, last'.idx)) =>
             /\ last'.ret = Raise("ResponseError")
             /\ store' = store
       /\ (Step("getitem") /\ ~InRange(store, last'.idx)) =>
             /\ last'.ret = (IF proxy.redisco_model THEN None
                             ELSE IF proxy.klass.name = "int" THEN Raise("TypeError")
                             ELSE PyStr("None"))
             /\ store' = store]_vars

C4_Witness ==
    /\ proxy.made
    /\ last.op = "setitem" /\ last.idx = Len(store) /\ Len(store) > 0
    /\ last.ret = Raise("ResponseError")

\* C5: in plain mode all() of the empty list is empty and every append(v)
\* extends all() by exactly cast(v) at the tail, so after append(v1..vn) on an
\* empty list all() is [cast(v1), ..., cast(vn)]
C5_AppendExtendsAll ==
    [][/\ (proxy.made /\ ~proxy.redisco_model) => AllOf(<<>>) = PyList(<<>>)
       /\ (Step("append") /\ ~proxy.redisco_model) =>
             AllOf(store') =
                PyList(Append(AllOf(store).items, CallType(proxy.klass, last'.arg)))]_vars

C5_Witness ==
    /\ proxy.made /\ proxy.klass = TInt
    /\ last.op = "append" /\ last.arg = PyInt(2)
    /\ AllOf(store) = PyList(<<PyInt(1), PyInt(1), PyInt(2)>>)

\* the stored form of the k-th element handed to the running extend
ExtRaw(k) == Encode(typecast_stor(proxy, ext.orig[k]))

\* the last k elements of s
LastK(s, k) == SubSeq(s, Len(s) - k + 1, Len(s))

\* C6 as stated: when extend completes, its k values are the last k elements
\* of the list, in input order, with nothing of another client between them
C6_ExtendOneRun ==
    [][(ext.st = "active" /\ ext'.st = "done") =>
          /\ Len(store') >= Len(ext.orig)
          /\ LastK(store', Len(ext.orig)) = [k \in 1..Len(ext.orig) |-> ExtRaw(k)]]_vars

\* C6 amended: extend applies the write transform to each element and appends
\* them to the tail in input order, one RPUSH command for each element; when
\* it completes the k values form one contiguous run in input order provided
\* no other client wrote to the key between those commands, and a value
\* appended by another client meanwhile lands between them
C6_ExtendInOrder ==
    [][/\ (ext.st = "active" /\ ext'.rem # ext.rem) =>
             /\ Len(ext'.rem) = Len(ext.rem) - 1
             /\ store' = Append(store, ExtRaw(Len(ext.orig) - Len(ext.rem) + 1))
       /\ (ext.st = "active" /\ ext'.st = "done" /\ ~ext.mixed) =>
             /\ Len(store') >= Len(ext.orig)
             /\ LastK(store', Len(ext.orig)) = [k \in 1..Len(ext.orig) |-> ExtRaw(k)]
       /\ (ext.st # "active" /\ ext'.st = "active") =>
             /\ Len(ext'.rem) = Len(ext'.orig)
             /\ store' = store]_vars

C6_Witness ==
    /\ proxy.made /\ proxy.klass = TInt
    /\ ext.st = "done" /\ ext.mixed
    /\ ext.orig = <<PyInt(1), PyInt(1)>>
    /\ store = <<"1", "2", "1">>

C8_UnknownTypeFailsFast ==
    [][/\ (Step("init") /\ last'.arg.ty = "str"
             /\ get_model_from_key(last'.arg.s) = None) =>
             /\ last'.ret = Raise("ValueError")
             /\ last'.cmds = 0
             /\ ~proxy'.made
             /\ store' = store
       /\ proxy'.made => proxy'.klass.ty = "type"]_vars

C8_Witness ==
    /\ ~proxy.made
    /\ last.op = "init" /\ last.arg = PyStr("Ghost")
    /\ last.ret = Raise("ValueError")

\* the context the precedence rule names for a container
Precedence(c) ==
    IF c.pipeline = Pipeline THEN Pipeline
    ELSE IF c.db = ExplicitConn THEN ExplicitConn
    ELSE DefaultConn

\* C9: every command a container issues goes to exactly one context: the
\* pipeline if one is set, else the explicit connection, else the default
\* connection, which is resolved on first use, kept on the instance and
\* resolved at most once for it
C9_ContextPrecedence ==
    /\ (cont.made /\ issued.ty = "command") =>
          /\ issued.ctx = Precedence(cont)
          /\ issued.ctx = DefaultConn => cont.db_cache = DefaultConn
    /\ cont.made =>
          /\ cont.imports <= 1
          /\ cont.imports = 1 <=> cont.db_cache # None
          /\ cont.db_cache # None => (cont.pipeline = None /\ cont.db = None)

C9_Witness ==
    /\ cont.made /\ cont.pipeline = None /\ cont.db = None
    /\ cont.imports = 1 /\ cont.db_cache = DefaultConn
    /\ issued.ty = "command" /\ issued.ctx = DefaultConn
    /\ Len(store) = MaxLen

\* C10: len(proxy) is the number of elements stored in the raw list, whatever
\* the element type and however many identifiers fail to resolve
C10_LenIsRawLength ==
    [][Step("len") => (last'.ret = PyInt(Len(store)) /\ store' = store)]_vars

C10_Witness ==
    /\ proxy.made /\ proxy.redisco_model
    /\ last.op = "len" /\ last.ret = PyInt(MaxLen)
    /\ Len(store) = MaxLen
    /\ Len(AllOf(store).items) < MaxLen

\* the members of the sorted set with a score that satisfies P, in its order
ScoredOf(P(_)) == PyList(Ordered(zset, {m \in DOMAIN zset : P(zset[m])}))

\* C11 as stated: ge(v) without limit and offset returns exactly the members
\* with a score greater than or equal to v, those with score v included, and
\* so exceeds gt(v) by exactly the members with score v
C11_GeIncludesEqual ==
    (reply.op = "ge" /\ reply.limit = None /\ reply.offset = None) =>
        reply.ret = ScoredOf(LAMBDA sc : sc >= reply.v)

\* C12 as stated: intersection_update(*other_sets) completes without error and
\* leaves the set holding exactly the elements that were in it and in every one
\* of other_sets, the other sets unchanged; with no other sets the set is
\* unchanged
C12_IntersectionUpdate ==
    [][(reply' # reply /\ reply'.op = "intersection_update") =>
          /\ ~IsExc(reply'.ret)
          /\ sets' = [sets EXCEPT ![reply'.self] =
                        {v \in sets[reply'.self] :
                            \A i \in 1..Len(reply'.others) :
                                v \in sets[reply'.others[i].key]}]]_vars

\* C13 as stated: on a plain-mode list of n elements a slice read proxy[a:b]
\* with 0 <= a <= b <= n returns the cast elements at the positions a..b-1 in
\* order, b-a of them and never the element at position b, and proxy[0:n] is
\* all()
C13_SliceHalfOpen ==
    [][(/\ last.op = "getslice" /\ last.ret.ty = "pending" /\ last'.ret.ty # "pending"
        /\ ~proxy.redisco_model
        /\ last.ret.n = Len(store)
        /\ last.arg.start # None /\ last.arg.stop # None
        /\ 0 <= last.arg.start.n /\ last.arg.start.n <= last.arg.stop.n
        /\ last.arg.stop.n <= Len(store)) =>
          /\ last'.ret = PyList([k \in 1..(last.arg.stop.n - last.arg.start.n) |->
                                   PlainCast(store[last.arg.start.n + k])])
          /\ (last.arg.start.n = 0 /\ last.arg.stop.n = Len(store))
                => last'.ret = AllOf(store)]_vars

====
